---- MODULE Spec2Model ----
(***************************************************************************)
(* FeishuDocumentService (src/common/backend/services/feishu/service.ts):  *)
(* token refresh, authenticated requests, content segmentation, chunked    *)
(* block creation and concurrent image upload of createDocument.           *)
(*                                                                         *)
(* Strings that the code inspects character by character (the content, the *)
(* access token) are sequences of one-character strings.  Time is counted  *)
(* in ticks of 1/TicksPerSec second, so that Date.now() / 1000 can have a  *)
(* fractional part while Math.floor(Date.now() / 1000) has none.           *)
(***************************************************************************)
EXTENDS Integers, Sequences, FiniteSets, TLC

\* ------------------------------------------------------------------ bounds
MaxSegs == 120       \* longest text-only content, in lines
MaxTicks == 1        \* how many ticks the clock advances during one run
MaxShortLived == 2   \* relay answers whose expires_in is at most the buffer
TicksPerSec == 2     \* clock resolution
T0 == 1000           \* epoch second at which createDocument is called
MaxPieces == 5       \* longest content given to the segmenter alone, in pieces

\* ------------------------------------------------------- program constants
chunkSize == 50            \* service.ts:263
RefreshBuffer == 300       \* service.ts:62
DefaultExpiresIn == 7200   \* service.ts:50
BlockTypeText == 2         \* service.ts:276
BlockTypeImage == 27       \* service.ts:271
AppendIndex == 0 - 1       \* service.ts:285

Min(a, b) == IF a < b THEN a ELSE b

\* ------------------------------------------------------------ segmentation
\* `.` of a JavaScript regular expression matches anything but a line
\* terminator.
IsLineTerminator(c) == c = "\n" \/ c = "\r"

NoLineTerminator(s, from, to) ==
    \A k \in from..to : ~IsLineTerminator(s[k])

\* The pairs <<q, r>> with which /!\[.*?\]\(.*?\)/ can match at position p:
\* s[p..p+1] = "![", s[q..q+1] = "](", s[r] = ")".
MatchesAt(s, p) ==
    IF p + 1 <= Len(s) /\ s[p] = "!" /\ s[p + 1] = "["
    THEN {qr \in ((p + 2)..(Len(s) - 1)) \X ((p + 4)..Len(s)) :
            /\ qr[2] >= qr[1] + 2
            /\ s[qr[1]] = "]" /\ s[qr[1] + 1] = "("
            /\ s[qr[2]] = ")"
            /\ NoLineTerminator(s, p + 2, qr[1] - 1)
            /\ NoLineTerminator(s, qr[1] + 2, qr[2] - 1)}
    ELSE {}

\* F applied to the value of e.  A definition of a LET is worked out again
\* at each of its uses when TLC computes ENABLED; the value bound here is
\* worked out once.
With(e, F(_)) == CHOOSE y \in {F(v) : v \in {e}} : TRUE

\* Both quantifiers are lazy: the first takes the least q that leads to a
\* match, the second the least r for that q.
LazyMatchAt(s, p) ==
    With(MatchesAt(s, p), LAMBDA ms :
      With(CHOOSE x \in {m[1] : m \in ms} : \A m \in ms : x <= m[1], LAMBDA q :
        LET r == CHOOSE y \in {m[2] : m \in {n \in ms : n[1] = q}} :
                     \A m \in {n \in ms : n[1] = q} : y <= m[2]
        IN  [start |-> p, urlFrom |-> q + 2, end |-> r]))

\* The leftmost match at or after position from; start = 0 when there is none.
FirstMatch(s, from) ==
    With({p \in from..Len(s) : MatchesAt(s, p) # {}}, LAMBDA starts :
      IF starts = {} THEN [start |-> 0, urlFrom |-> 0, end |-> 0]
      ELSE With(CHOOSE p \in starts : \A o \in starts : p <= o,
                LAMBDA p : LazyMatchAt(s, p)))

\* content.split(/(!\[.*?\]\(.*?\))/g): the text before each match (possibly
\* empty), the match itself, and the text after the last match.
RECURSIVE SplitImages(_, _)
SplitImages(s, from) ==
    With(FirstMatch(s, from), LAMBDA m :
      IF m.start = 0 THEN << SubSeq(s, from, Len(s)) >>
      ELSE << SubSeq(s, from, m.start - 1), SubSeq(s, m.start, m.end) >>
             \o SplitImages(s, m.end + 1))

SplitLines_crlfOnly(s) ==
    LET lf == SelectSeq([k \in 1..Len(s) |-> k], LAMBDA k : s[k] = "\n")
        From(m) == IF m = 1 THEN 1 ELSE lf[m - 1] + 1
        To(m) == IF m = Len(lf) + 1 THEN Len(s) ELSE lf[m] - 2
    IN  [m \in 1..(Len(lf) + 1) |-> SubSeq(s, From(m), To(m))]

\* part.split(/\r?\n/): every line, the empty ones included.  A separator
\* is a line feed together with the carriage return right before it.
SplitLines(s) ==
    With(SelectSeq([k \in 1..Len(s) |-> k], LAMBDA k : s[k] = "\n"),
         LAMBDA lf :
      LET From(m) == IF m = 1 THEN 1 ELSE lf[m - 1] + 1
          To(m) == IF m = Len(lf) + 1 THEN Len(s)
                   ELSE IF lf[m] > 1 /\ s[lf[m] - 1] = "\r" THEN lf[m] - 2
                   ELSE lf[m] - 1
      IN  [m \in 1..(Len(lf) + 1) |-> SubSeq(s, From(m), To(m))])

\* The body of parts.forEach: an image segment for a part that matches the
\* image expression, one text segment per line for any other non-empty part.
PartSegments(part) ==
    With(FirstMatch(part, 1), LAMBDA imageMatch :
      IF imageMatch.start # 0
      THEN << [type |-> "image",
               data |-> SubSeq(part, imageMatch.urlFrom, imageMatch.end - 1)] >>
      ELSE IF part # << >>
      THEN With(SplitLines(part), LAMBDA lines :
             [k \in 1..Len(lines) |-> [type |-> "text", data |-> lines[k]]])
      ELSE << >>)

RECURSIVE ConcatSegments(_, _)
ConcatSegments(parts, k) ==
    IF k > Len(parts) THEN << >>
    ELSE PartSegments(parts[k]) \o ConcatSegments(parts, k + 1)

Segment(content) ==
    With(SplitImages(content, 1), LAMBDA parts : ConcatSegments(parts, 1))

\* ------------------------------------------------------------------- state
VARIABLES
    clock,            \* Date.now(), in ticks
    config,           \* this.config, the credential snapshot
    info,             \* the argument of createDocument
    pc,               \* where createDocument is suspended
    req,              \* the request requestWithToken is working on
    token,            \* requestWithToken's token
    refreshInfo,      \* the info argument of the refreshToken call in flight
    call,             \* index in calls of the call createDocument awaits
    json,             \* the last response requestWithToken parsed
    documentId, segments, i, createdChildren,
    up,               \* the uploadImage calls of the current chunk
    result,           \* how the promise of createDocument settled
    calls,            \* every network call issued, in order
    resps,            \* the outcome of each call, "pending" while in flight
    issued            \* successful refreshes the relay has answered

vars == << clock, config, info, pc, req, token, refreshInfo, call, json,
           documentId, segments, i, createdChildren, up, result, calls,
           resps, issued >>

\* ------------------------------------------------------------------ inputs
WorkerUrl == << "https://relay.example", "/" >>
DocId == "doxcn1"
NoUploads == [j \in {} |-> 0]
NoToken == << >>
Null == << >>

Letter(k) == IF k % 2 = 1 THEN "a" ELSE "b"
Url(k) == IF k % 2 = 1 THEN "u" ELSE "v"

\* n one-letter lines separated by line feeds.
Lines(n) ==
    [k \in 1..(2 * n - 1) |-> IF k % 2 = 1 THEN Letter((k + 1) \div 2) ELSE "\n"]

\* A content given by its shape: 0 stands for an image reference, n > 0 for
\* n lines; references touch their neighbours without a line break.
RECURSIVE Content(_, _)
Content(shape, k) ==
    IF k > Len(shape) THEN << >>
    ELSE (IF shape[k] = 0 THEN << "!", "[", "]", "(", Url(k), ")" >>
                          ELSE Lines(shape[k]))
         \o Content(shape, k + 1)

ImageShapes ==
    { << 0 >>, << 0, 0 >>, << 1, 0, 0 >>,
      << 0, chunkSize - 2, 0, 1 >>,
      << 0, chunkSize - 1, 0 >> }

Contents ==
    { Lines(n) : n \in 0..MaxSegs }
        \cup { Content(sh, 1) : sh \in ImageShapes }

Configs ==
    [ workerUrl : {WorkerUrl},
      accessToken : {NoToken, << "t", " ", "k" >>},
      refreshToken : {0, 1},
      expiresAt : {0, T0 - 1, T0 + RefreshBuffer} ]

\* What the relay may answer to POST /refresh.
ExpiresInValues == {0, 60, RefreshBuffer}

RelayResponses ==
    [ kind : {"networkError", "errorPayload"},
      access_token : {NoToken}, refresh_token : {0}, expires_in : {0} ]
    \cup
    [ kind : {"ok"},
      access_token : {<< "r", ToString(issued + 1) >>},
      refresh_token : {10 + issued + 1},
      expires_in : {e \in ExpiresInValues :
                       e = 0 \/ issued < MaxShortLived} ]

\* What the document service may answer: the envelope {code, msg, data}, or
\* no usable response at all.
Msgs == {"no permission", "", "invalid Headers"}

ServiceResponses ==
    [ kind : {"ok"}, code : {0}, msg : {"success"} ]
    \cup [ kind : {"api"}, code : {7}, msg : Msgs ]
    \cup [ kind : {"transport"}, code : {0 - 1}, msg : {"Failed to fetch"} ]

DownloadOutcomes == {"ok", "notOk", "error"}

\* ---------------------------------------------------------- token lifecycle
shouldRefresh_unsetIsExpired(cfg, now) ==
    now > (cfg.expiresAt - RefreshBuffer) * TicksPerSec

\* service.ts:60-62
shouldRefresh(cfg, now) ==
    cfg.expiresAt # 0 /\ now > (cfg.expiresAt - RefreshBuffer) * TicksPerSec

\* service.ts:27
refreshToken_missing(cfg) == cfg.refreshToken = 0 \/ cfg.workerUrl = << >>

\* service.ts:30-31: one trailing slash is dropped before "/refresh" is added.
workerRefreshUrl(cfg) ==
    LET w == cfg.workerUrl
    IN  (IF w # << >> /\ w[Len(w)] = "/" THEN SubSeq(w, 1, Len(w) - 1) ELSE w)
            \o << "/refresh" >>

refreshToken_return_keepsRefreshToken(cfg, data, now) ==
    [ cfg EXCEPT !.accessToken = data.access_token,
                 !.expiresAt = (now \div TicksPerSec)
                     + (IF data.expires_in # 0 THEN data.expires_in
                                               ELSE DefaultExpiresIn) ]

\* service.ts:46-51
refreshToken_return(cfg, data, now) ==
    [ cfg EXCEPT !.accessToken = data.access_token,
                 !.refreshToken = data.refresh_token,
                 !.expiresAt = (now \div TicksPerSec)
                     + (IF data.expires_in # 0 THEN data.expires_in
                                               ELSE DefaultExpiresIn) ]

\* service.ts:97
cleanToken(t) == SelectSeq(t, LAMBDA c : c # " ")

SessionExpired == "Session expired, please login again via Worker."
TokenMissing == "Access token is missing. Please re-login."

IncludesHeaders(m) == m = "invalid Headers"

\* service.ts:127-139: the error requestWithToken throws for a response.
requestWithToken_error(r) ==
    LET e == IF r.kind = "transport" THEN r.msg
             ELSE IF r.msg # "" THEN r.msg
             ELSE "Feishu API Error code"
    IN  IF IncludesHeaders(e) THEN "Invalid Token Format" ELSE e

\* A call as it is recorded in calls.
Call(api, bearer, arg) == [api |-> api, at |-> i, bearer |-> bearer, arg |-> arg]

RefreshCall(cfg) ==
    [api |-> "refresh", at |-> i, bearer |-> NoToken,
     arg |-> [url |-> workerRefreshUrl(cfg), refresh_token |-> cfg.refreshToken]]

\* --------------------------------------------------------- createDocument
chunk_short == SubSeq(segments, i + 1, Min(i + chunkSize - 1, Len(segments)))

chunk == SubSeq(segments, i + 1, Min(i + chunkSize, Len(segments)))

childrenPayload_swapped ==
    [ j \in 1..Len(chunk) |->
        IF chunk[j].type = "text"
        THEN [block_type |-> BlockTypeImage, image |-> [token |-> << >>]]
        ELSE [block_type |-> BlockTypeText, text |-> chunk[j].data] ]

\* service.ts:268-280
childrenPayload ==
    [ j \in 1..Len(chunk) |->
        IF chunk[j].type = "image"
        THEN [block_type |-> BlockTypeImage, image |-> [token |-> << >>]]
        ELSE [block_type |-> BlockTypeText, text |-> chunk[j].data] ]

\* The positions of the chunk that have an upload, in the order of
\* uploadPromises.
UploadOrder ==
    SelectSeq([j \in 1..chunkSize |-> j], LAMBDA j : j \in DOMAIN up)

updates_unfiltered ==
    [ k \in 1..Len(UploadOrder) |->
        [blockId |-> up[UploadOrder[k]].blockId,
         token |-> up[UploadOrder[k]].result] ]

\* service.ts:308-310
updates ==
    LET ok == SelectSeq(UploadOrder, LAMBDA j : up[j].result # Null)
    IN  [ k \in 1..Len(ok) |->
            [blockId |-> up[ok[k]].blockId, token |-> up[ok[k]].result[1]] ]

\* service.ts:222-225
requests ==
    [ k \in 1..Len(updates) |->
        [block_id |-> updates[k].blockId, replace_image |-> updates[k].token] ]

\* The body of the request createDocument is about to send.
RequestBody ==
    CASE req = "createDoc" ->
           [folder_token |-> info.repositoryId, title |-> info.title]
      [] req = "children" ->
           [doc |-> documentId, children |-> childrenPayload,
            index |-> AppendIndex]
      [] req = "patch" -> [doc |-> documentId, requests |-> requests]

Here ==
    [ pc |-> pc, req |-> req, i |-> i, result |-> result, up |-> up,
      createdChildren |-> createdChildren, documentId |-> documentId,
      segments |-> segments ]

Pending == [status |-> "pending", error |-> "", value |-> << >>]

Completion_foldedIds(st) ==
    [ status |-> "ok", error |-> "",
      value |-> << [ href |-> << "https://feishu.cn/docx/", info.repositoryId >>,
                     repositoryId |-> info.repositoryId,
                     documentId |-> info.repositoryId ] >> ]

\* service.ts:318-322
Completion(st) ==
    [ status |-> "ok", error |-> "",
      value |-> << [ href |-> << "https://feishu.cn/docx/", st.documentId >>,
                     repositoryId |-> info.repositoryId,
                     documentId |-> st.documentId ] >> ]

\* service.ts:262-264: the loop test with index ni; the return when it fails.
Iterate(st, ni) ==
    IF ni < Len(st.segments)
    THEN [st EXCEPT !.pc = "getToken", !.req = "children", !.i = ni,
                    !.up = NoUploads, !.createdChildren = << >>]
    ELSE [st EXCEPT !.pc = "done", !.req = "none", !.i = ni,
                    !.up = NoUploads, !.createdChildren = << >>,
                    !.result = Completion(st)]

Throw_swallowed(e) == Iterate(Here, i + chunkSize)

Throw_retried(e) ==
    IF req = "patch" THEN Iterate(Here, i + chunkSize)
    ELSE IF req = "children" /\ json.kind = "ok"
    THEN [Here EXCEPT !.pc = "getToken"]
    ELSE [Here EXCEPT !.pc = "done",
                      !.result = [status |-> "failed", error |-> e,
                                  value |-> << >>]]

Throw_patchFatal(e) ==
    [Here EXCEPT !.pc = "done",
                 !.result = [status |-> "failed", error |-> e,
                             value |-> << >>]]

\* An exception inside requestWithToken: batchUpdateBlocks catches it
\* (service.ts:228), createDocument does not.
Throw(e) ==
    IF req = "patch" THEN Iterate(Here, i + chunkSize)
    ELSE [Here EXCEPT !.pc = "done",
                      !.result = [status |-> "failed", error |-> e,
                                  value |-> << >>]]

\* createDocument goes on from st, which is worked out once.
Goto(st) ==
    \E t \in {st} :
        /\ pc' = t.pc
        /\ req' = t.req
        /\ i' = t.i
        /\ result' = t.result
        /\ up' = t.up
        /\ createdChildren' = t.createdChildren
        /\ documentId' = t.documentId
        /\ segments' = t.segments

Init ==
    /\ clock = T0 * TicksPerSec
    /\ config \in Configs
    /\ info \in [title : {"T"}, repositoryId : {"fld"}, content : Contents]
    /\ pc = "getToken"
    /\ req = "createDoc"
    /\ token = NoToken
    /\ refreshInfo = config
    /\ call = 0
    /\ json = [kind |-> "none", code |-> 0, msg |-> ""]
    /\ documentId = ""
    /\ segments = << >>
    /\ i = 0 - 1
    /\ createdChildren = << >>
    /\ up = NoUploads
    /\ result = Pending
    /\ calls = << >>
    /\ resps = << >>
    /\ issued = 0

\* Time passes while createDocument runs.
Tick ==
    /\ pc # "done"
    /\ clock < T0 * TicksPerSec + MaxTicks
    /\ clock' = clock + 1
    /\ UNCHANGED << config, info, pc, req, token, refreshInfo, call, json,
                    documentId, segments, i, createdChildren, up, result,
                    calls, resps, issued >>

\* service.ts:91, 58-88 up to the await of refreshToken: requestWithToken
\* calls getAccessToken.
getAccessToken ==
    /\ pc = "getToken"
    /\ IF shouldRefresh(config, clock)
       THEN IF refreshToken_missing(config)
            THEN /\ Goto(Throw(SessionExpired))
                 /\ UNCHANGED << token, refreshInfo, call, calls, resps >>
            ELSE /\ pc' = "refreshing"
                 /\ refreshInfo' = config
                 /\ calls' = Append(calls, RefreshCall(config))
                 /\ resps' = Append(resps, "pending")
                 /\ call' = Len(calls) + 1
                 /\ UNCHANGED << req, i, result, up, createdChildren,
                                 documentId, segments, token >>
       ELSE /\ pc' = "haveToken"
            /\ token' = config.accessToken
            /\ UNCHANGED << req, i, result, up, createdChildren, documentId,
                            segments, refreshInfo, call, calls, resps >>
    /\ UNCHANGED << clock, config, info, json, issued >>

refreshToken_keepsStaleToken(data) ==
    /\ pc = "refreshing"
    /\ resps' = [resps EXCEPT ![call] = data.kind]
    /\ config' = IF data.kind = "ok"
                 THEN refreshToken_return(refreshInfo, data, clock)
                 ELSE config
    /\ token' = config'.accessToken
    /\ pc' = "haveToken"
    /\ issued' = IF data.kind = "ok" THEN issued + 1 ELSE issued
    /\ UNCHANGED << req, i, result, up, createdChildren, documentId,
                    segments >>
    /\ UNCHANGED << clock, info, refreshInfo, call, json, calls >>

\* service.ts:41-55, 75-87: the relay answers the refresh of createDocument.
refreshToken(data) ==
    /\ pc = "refreshing"
    /\ resps' = [resps EXCEPT ![call] = data.kind]
    /\ IF data.kind = "ok"
       THEN /\ config' = refreshToken_return(refreshInfo, data, clock)
            /\ token' = config'.accessToken
            /\ pc' = "haveToken"
            /\ issued' = issued + 1
            /\ UNCHANGED << req, i, result, up, createdChildren, documentId,
                            segments >>
       ELSE /\ Goto(Throw(SessionExpired))
            /\ UNCHANGED << config, token, issued >>
    /\ UNCHANGED << clock, info, refreshInfo, call, json, calls >>

\* service.ts:92-124: requestWithToken sends the request.
requestWithToken ==
    /\ pc = "haveToken"
    /\ IF token = NoToken
       THEN /\ Goto(Throw(TokenMissing))
            /\ UNCHANGED << call, calls, resps >>
       ELSE /\ pc' = "awaiting"
            /\ calls' = Append(calls,
                   Call(req, cleanToken(token),
                        RequestBody))
            /\ resps' = Append(resps, "pending")
            /\ call' = Len(calls) + 1
            /\ UNCHANGED << req, i, result, up, createdChildren, documentId,
                            segments >>
    /\ UNCHANGED << clock, config, info, token, refreshInfo, json, issued >>

\* service.ts:289-303: the uploads createDocument starts for the children
\* the service created; each runs up to its first await, the download.
imagePositions == {j \in 1..Len(chunk) : chunk[j].type = "image"}

blockIds == [j \in 1..Len(chunk) |-> i + j]

downloads ==
    LET ord == SelectSeq([j \in 1..Len(chunk) |-> j],
                         LAMBDA j : j \in imagePositions)
    IN  [k \in 1..Len(ord) |-> Call("download", NoToken, chunk[ord[k]].data)]

NthImage(j) == Cardinality({k \in imagePositions : k <= j})

uploadPromises_byImageCount ==
    [ j \in imagePositions |->
        [ pc |-> "downloading", blockId |-> blockIds[NthImage(j)],
          imageUrl |-> chunk[j].data, token |-> NoToken,
          refreshInfo |-> config, call |-> Len(calls) + NthImage(j),
          result |-> Null ] ]

uploadPromises ==
    [ j \in imagePositions |->
        [ pc |-> "downloading", blockId |-> blockIds[j],
          imageUrl |-> chunk[j].data, token |-> NoToken,
          refreshInfo |-> config, call |-> Len(calls) + NthImage(j),
          result |-> Null ] ]

\* service.ts:125-132 and what createDocument does with the data.
requestWithToken_return(r) ==
    /\ pc = "awaiting"
    /\ json' = r
    /\ IF r.kind # "ok"
       THEN /\ Goto(Throw(requestWithToken_error(r)))
            /\ calls' = calls
            /\ resps' = [resps EXCEPT ![call] = r.kind]
       ELSE CASE req = "createDoc" ->
                   /\ Goto(Iterate([Here EXCEPT
                               !.documentId = DocId,
                               !.segments = Segment(info.content)], 0))
                   /\ calls' = calls
                   /\ resps' = [resps EXCEPT ![call] = r.kind]
              [] req = "children" ->
                   IF imagePositions = {}
                   THEN /\ Goto(Iterate(Here, i + chunkSize))
                        /\ calls' = calls
                        /\ resps' = [resps EXCEPT ![call] = r.kind]
                   ELSE /\ Goto([Here EXCEPT !.pc = "uploading",
                                             !.createdChildren = blockIds,
                                             !.up = uploadPromises])
                        /\ calls' = calls \o downloads
                        /\ resps' = [resps EXCEPT ![call] = r.kind]
                                      \o [k \in 1..Len(downloads) |-> "pending"]
              [] req = "patch" ->
                   /\ Goto(Iterate(Here, i + chunkSize))
                   /\ calls' = calls
                   /\ resps' = [resps EXCEPT ![call] = r.kind]
    /\ UNCHANGED << clock, config, info, token, refreshInfo, call, issued >>

\* ------------------------------------------------------------- uploadImage
Resolve(j, t) == [up EXCEPT ![j].pc = "resolved", ![j].result = t]

uploadImage_downloaded_rejects(j, outcome) ==
    /\ pc = "uploading"
    /\ up[j].pc = "downloading"
    /\ resps' = [resps EXCEPT ![up[j].call] = outcome]
    /\ up' = IF outcome = "ok" THEN [up EXCEPT ![j].pc = "getToken"]
             ELSE Resolve(j, Null)
    /\ pc' = IF outcome = "ok" THEN pc ELSE "done"
    /\ result' = IF outcome = "ok" THEN result
                 ELSE [status |-> "failed", error |-> "Image download failed",
                       value |-> << >>]
    /\ UNCHANGED << clock, config, info, req, token, refreshInfo, call,
                    json, documentId, segments, i, createdChildren,
                    calls, issued >>

\* service.ts:186-191: the download of image j returns.
uploadImage_downloaded(j, outcome) ==
    /\ pc = "uploading"
    /\ up[j].pc = "downloading"
    /\ resps' = [resps EXCEPT ![up[j].call] = outcome]
    /\ up' = IF outcome = "ok" THEN [up EXCEPT ![j].pc = "getToken"]
             ELSE Resolve(j, Null)
    /\ UNCHANGED << clock, config, info, pc, req, token, refreshInfo, call,
                    json, documentId, segments, i, createdChildren, result,
                    calls, issued >>

\* service.ts:201-205: the upload of image j is sent with token t as it is.
\* Nothing runs between the return of getAccessToken and this fetch: the
\* continuation of `await this.getAccessToken()` is a microtask of the same
\* turn, and the answer of another call is delivered in a later turn.
uploadImage_fetch(j, t, rs) ==
    /\ up' = [up EXCEPT ![j].pc = "awaiting", ![j].token = t,
                        ![j].call = Len(calls) + 1]
    /\ calls' = Append(calls,
           Call("upload", t,
                [parent_node |-> up[j].blockId, file |-> up[j].imageUrl]))
    /\ resps' = Append(rs, "pending")

uploadImage_getAccessToken_capturedCopy(j) ==
    /\ pc = "uploading"
    /\ up[j].pc = "getToken"
    /\ IF shouldRefresh(config, clock)
       THEN IF refreshToken_missing(config)
            THEN /\ up' = Resolve(j, Null)
                 /\ UNCHANGED << calls, resps >>
            ELSE /\ up' = [up EXCEPT ![j].pc = "refreshing",
                                     ![j].refreshInfo = config,
                                     ![j].call = Len(calls) + 1]
                 /\ calls' = Append(calls, RefreshCall(config))
                 /\ resps' = Append(resps, "pending")
       ELSE uploadImage_fetch(j, up[j].refreshInfo.accessToken, resps)
    /\ UNCHANGED << clock, config, info, pc, req, token, refreshInfo, call,
                    json, documentId, segments, i, createdChildren, result,
                    issued >>

\* service.ts:200, 58-88 up to the await of refreshToken, or to the fetch of
\* the upload when no refresh is due.
uploadImage_getAccessToken(j) ==
    /\ pc = "uploading"
    /\ up[j].pc = "getToken"
    /\ IF shouldRefresh(config, clock)
       THEN IF refreshToken_missing(config)
            THEN /\ up' = Resolve(j, Null)
                 /\ UNCHANGED << calls, resps >>
            ELSE /\ up' = [up EXCEPT ![j].pc = "refreshing",
                                     ![j].refreshInfo = config,
                                     ![j].call = Len(calls) + 1]
                 /\ calls' = Append(calls, RefreshCall(config))
                 /\ resps' = Append(resps, "pending")
       ELSE uploadImage_fetch(j, config.accessToken, resps)
    /\ UNCHANGED << clock, config, info, pc, req, token, refreshInfo, call,
                    json, documentId, segments, i, createdChildren, result,
                    issued >>

\* service.ts:41-55, 75-87, 200-205, 213-216: the relay answers the refresh
\* of upload j; on success the upload is sent with the new token.
uploadImage_refreshToken(j, data) ==
    /\ pc = "uploading"
    /\ up[j].pc = "refreshing"
    /\ IF data.kind = "ok"
       THEN /\ config' = refreshToken_return(up[j].refreshInfo, data, clock)
            /\ issued' = issued + 1
            /\ uploadImage_fetch(j, config'.accessToken,
                                 [resps EXCEPT ![up[j].call] = data.kind])
       ELSE /\ up' = Resolve(j, Null)
            /\ resps' = [resps EXCEPT ![up[j].call] = data.kind]
            /\ UNCHANGED << config, issued, calls >>
    /\ UNCHANGED << clock, info, pc, req, token, refreshInfo, call, json,
                    documentId, segments, i, createdChildren, result >>

\* The media token the service returns for an upload.
file_token(c) == [node |-> c.arg.parent_node, file |-> c.arg.file]

\* service.ts:206-216: the upload of image j returns.
uploadImage_return(j, r) ==
    /\ pc = "uploading"
    /\ up[j].pc = "awaiting"
    /\ resps' = [resps EXCEPT ![up[j].call] = r.kind]
    /\ up' = IF r.kind = "ok"
             THEN Resolve(j, << file_token(calls[up[j].call]) >>)
             ELSE Resolve(j, Null)
    /\ UNCHANGED << clock, config, info, pc, req, token, refreshInfo, call,
                    json, documentId, segments, i, createdChildren, result,
                    calls, issued >>

batchUpdateBlocks_needsEveryToken ==
    /\ pc = "uploading"
    /\ \A j \in DOMAIN up : up[j].pc = "resolved" /\ up[j].result # Null
    /\ IF Len(updates) = 0
       THEN Goto(Iterate(Here, i + chunkSize))
       ELSE Goto([Here EXCEPT !.pc = "getToken", !.req = "patch"])
    /\ UNCHANGED << clock, config, info, token, refreshInfo, call, json, calls,
                    resps, issued >>

batchUpdateBlocks_notAwaited ==
    /\ pc = "uploading"
    /\ Goto(Iterate(Here, i + chunkSize))
    /\ UNCHANGED << clock, config, info, token, refreshInfo, call, json, calls,
                    resps, issued >>

batchUpdateBlocks_afterFirst ==
    /\ pc = "uploading"
    /\ \E j \in DOMAIN up : up[j].pc = "resolved"
    /\ IF Len(updates) = 0
       THEN Goto(Iterate(Here, i + chunkSize))
       ELSE Goto([Here EXCEPT !.pc = "getToken", !.req = "patch"])
    /\ UNCHANGED << clock, config, info, token, refreshInfo, call, json, calls,
                    resps, issued >>

\* service.ts:306-313, 220: Promise.all resolves; batchUpdateBlocks starts.
batchUpdateBlocks ==
    /\ pc = "uploading"
    /\ \A j \in DOMAIN up : up[j].pc = "resolved"
    /\ IF Len(updates) = 0
       THEN Goto(Iterate(Here, i + chunkSize))
       ELSE Goto([Here EXCEPT !.pc = "getToken", !.req = "patch"])
    /\ UNCHANGED << clock, config, info, token, refreshInfo, call, json, calls,
                    resps, issued >>

Next ==
    \/ Tick
    \/ getAccessToken
    \/ \E data \in RelayResponses : refreshToken(data)
    \/ requestWithToken
    \/ \E r \in ServiceResponses : requestWithToken_return(r)
    \/ \E j \in DOMAIN up, outcome \in DownloadOutcomes :
          uploadImage_downloaded(j, outcome)
    \/ \E j \in DOMAIN up : uploadImage_getAccessToken(j)
    \/ \E j \in DOMAIN up, data \in RelayResponses :
          uploadImage_refreshToken(j, data)
    \/ \E j \in DOMAIN up, r \in ServiceResponses : uploadImage_return(j, r)
    \/ batchUpdateBlocks

Spec == Init /\ [][Next]_vars

\* ------------------------------------------------------------- fairness
\* A step of the program or the answer to a call in flight; time passing is
\* not one.
Progress == Next /\ clock' = clock

\* The event loop runs every continuation that is ready, and every network
\* call in flight is answered, with a response or a failure.
LiveSpec == Spec /\ WF_vars(Progress)

\* ------------------------------------------------------- segmenter alone
\* service.ts:244-259 applied to contents put together from a few pieces:
\* a letter, the line terminators, an image reference and its fragments.
SegPieces ==
    { << "a" >>, << "\n" >>, << "\r" >>, << "!", "[" >>, << "]", "(" >>,
      << ")" >>, << "!", "[", "x", "]", "(", "u", ")" >> }

RECURSIVE Join(_, _)
Join(ps, k) == IF k > Len(ps) THEN << >> ELSE ps[k] \o Join(ps, k + 1)

\* "Hello\n![x](http://a/img.png)\nWorld"
Scenario ==
    << "H", "e", "l", "l", "o", "\n", "!", "[", "x", "]",
       "(", "h", "t", "t", "p", ":", "/", "/", "a", "/",
       "i", "m", "g", ".", "p", "n", "g", ")", "\n", "W",
       "o", "r", "l", "d" >>

SegContents ==
    { Join(ps, 1) : ps \in UNION { [1..n -> SegPieces] : n \in 0..MaxPieces } }
        \cup { Scenario }

SegInit ==
    /\ clock = T0 * TicksPerSec
    /\ config = [workerUrl |-> WorkerUrl, accessToken |-> << "t" >>,
                 refreshToken |-> 1, expiresAt |-> 0]
    /\ info \in [title : {"T"}, repositoryId : {"fld"}, content : SegContents]
    /\ pc = "segment"
    /\ req = "none"
    /\ token = NoToken
    /\ refreshInfo = config
    /\ call = 0
    /\ json = [kind |-> "none", code |-> 0, msg |-> ""]
    /\ documentId = DocId
    /\ segments = << >>
    /\ i = 0 - 1
    /\ createdChildren = << >>
    /\ up = NoUploads
    /\ result = Pending
    /\ calls = << >>
    /\ resps = << >>
    /\ issued = 0

\* service.ts:244-259: createDocument segments the content.
createDocument_segment ==
    /\ pc = "segment"
    /\ segments' = Segment(info.content)
    /\ pc' = "segmented"
    /\ UNCHANGED << clock, config, info, req, token, refreshInfo, call, json,
                    documentId, i, createdChildren, up, result, calls, resps,
                    issued >>

SegNext == createDocument_segment

SegSpec == SegInit /\ [][SegNext]_vars

\* ------------------------------------------------------------- properties
CallsOf(cs, api) == {k \in 1..Len(cs) : cs[k].api = api}

DocumentServiceCalls(cs) ==
    {k \in 1..Len(cs) : cs[k].api \in {"createDoc", "children", "upload", "patch"}}

\* createDocument itself takes a step (time passing is not one).
MainStep == pc' # pc \/ req' # req \/ i' # i

\* Some getAccessToken call runs in this step, by requestWithToken or by an
\* uploadImage.
GetAccessTokenStep ==
    \/ pc = "getToken" /\ MainStep
    \/ /\ pc = "uploading"
       /\ \E j \in DOMAIN up : up[j].pc = "getToken" /\ up'[j].pc # "getToken"

\* A refresh fails in this step: the relay answers with a failure, or
\* refreshToken finds no refresh token to send.
RefreshFailsStep ==
    \/ \E k \in CallsOf(calls, "refresh") :
          resps[k] = "pending" /\ resps'[k] \notin {"pending", "ok"}
    \/ GetAccessTokenStep /\ shouldRefresh(config, clock)
                          /\ refreshToken_missing(config)

\* C1: one getAccessToken call makes exactly one refresh call when an expiry
\* is recorded and now > expiresAt - 300 and none otherwise (a refresh without
\* a refresh token fails before it reaches the relay and is counted as made),
\* and right after a successful refresh, whatever expires_in the relay
\* returned, another getAccessToken call would not refresh again.
C1_OneRefreshThenNone ==
    [][ /\ GetAccessTokenStep =>
              Cardinality(CallsOf(calls', "refresh"))
                  - Cardinality(CallsOf(calls, "refresh"))
                = (IF shouldRefresh(config, clock)
                      /\ ~refreshToken_missing(config) THEN 1 ELSE 0)
        /\ issued' = issued + 1 => ~shouldRefresh(config', clock') ]_vars

\* The first token acquisition of createDocument fails in this step.
FirstAcquisitionFails ==
    /\ req = "createDoc"
    /\ MainStep
    /\ \/ pc = "getToken" /\ shouldRefresh(config, clock)
                          /\ refreshToken_missing(config)
       \/ pc = "refreshing" /\ resps'[call] # "ok"
       \/ pc = "haveToken" /\ token = NoToken

\* C2: when the first token acquisition of createDocument fails (refresh
\* needed and failing, or no access token), createDocument fails with the
\* session error and no document-service request has been or will be issued.
C2_FirstAcquisitionFailureAborts ==
    [][ /\ FirstAcquisitionFails =>
              /\ pc' = "done"
              /\ result'.status = "failed"
              /\ result'.error \in {SessionExpired, TokenMissing}
              /\ DocumentServiceCalls(calls') = {}
        /\ pc = "done" => calls' = calls ]_vars

C2_Witness ==
    /\ pc = "done"
    /\ result.status = "failed"
    /\ result.error = SessionExpired
    /\ config.expiresAt = T0 - 1
    /\ Len(calls) = 1
    /\ calls[1].api = "refresh"
    /\ resps[1] = "networkError"

\* C3: a refresh failure at any token acquisition of createDocument, those of
\* the image uploads and of the patch call included, makes createDocument
\* fail with the session error, and the refresh is not tried again.
C3_AnyRefreshFailureIsFatal ==
    [][ RefreshFailsStep =>
            /\ result'.status = "failed"
            /\ result'.error = SessionExpired
            /\ pc' = "done" ]_vars

\* ------------------------------------------------------ block creation
\* The block-creation calls, in the order they were issued.
ChildrenCalls ==
    SelectSeq([k \in 1..Len(calls) |-> k], LAMBDA k : calls[k].api = "children")

AllSucceeded == \A k \in 1..Len(resps) : resps[k] = "ok"

\* C4: block-creation calls are issued one at a time and in index order: a
\* call is issued only after every earlier one has returned successfully, and
\* at most one is in flight.
C4_BatchesSequential ==
    LET cc == ChildrenCalls
    IN  /\ \A m \in 1..Len(cc) : calls[cc[m]].at = (m - 1) * chunkSize
        /\ \A m \in 1..(Len(cc) - 1) : resps[cc[m]] = "ok"
        /\ Cardinality({k \in CallsOf(calls, "children") :
                           resps[k] = "pending"}) <= 1

C4_Witness ==
    /\ Len(ChildrenCalls) = 3
    /\ resps[ChildrenCalls[3]] = "pending"

\* C5: when every remote call succeeds, N segments are published in
\* ceil(N / 50) block-creation calls, all of 50 children except the last,
\* which carries the rest.
C5_BatchCount ==
    (result.status = "ok" /\ AllSucceeded) =>
        LET cc == ChildrenCalls
            N == Len(segments)
            B == (N + chunkSize - 1) \div chunkSize
        IN  /\ Len(cc) = B
            /\ \A m \in 1..Len(cc) :
                  Len(calls[cc[m]].arg.children) =
                      IF m < B THEN chunkSize ELSE N - chunkSize * (B - 1)

C5_Witness ==
    /\ result.status = "ok"
    /\ AllSucceeded
    /\ Len(segments) = 120
    /\ Len(ChildrenCalls) = 3
    /\ Len(calls[ChildrenCalls[1]].arg.children) = 50
    /\ Len(calls[ChildrenCalls[2]].arg.children) = 50
    /\ Len(calls[ChildrenCalls[3]].arg.children) = 20

RECURSIVE ChildrenFrom(_)
ChildrenFrom(m) ==
    IF m > Len(ChildrenCalls) THEN << >>
    ELSE calls[ChildrenCalls[m]].arg.children \o ChildrenFrom(m + 1)

BlockOf(seg) ==
    IF seg.type = "image" THEN [block_type |-> 27, image |-> [token |-> << >>]]
    ELSE [block_type |-> 2, text |-> seg.data]

\* C6: on a fully successful publish the children of all block-creation
\* requests, in the order the requests were issued, are one block per segment
\* in segment order, an empty image block (type 27) for an image and a text
\* block (type 2) with the line for a text, and every request appends.
C6_SegmentOrderPreserved ==
    (result.status = "ok" /\ AllSucceeded) =>
        /\ ChildrenFrom(1) = [k \in 1..Len(segments) |-> BlockOf(segments[k])]
        /\ \A k \in CallsOf(calls, "children") : calls[k].arg.index = 0 - 1

C6_Witness ==
    /\ result.status = "ok"
    /\ AllSucceeded
    /\ Len(ChildrenCalls) = 2
    /\ Len(segments) = chunkSize + 1
    /\ segments[1].type = "image"
    /\ segments[2].type = "text"
    /\ segments[chunkSize + 1].type = "image"

\* C7: a failed document-creation or block-creation call is the last call of
\* the operation (no retry, no further batch, upload or patch, no call that
\* touches the blocks already created), and createDocument has failed with
\* the error of that call instead of returning a record.
C7_CreationFailureAborts ==
    \A k \in CallsOf(calls, "createDoc") \cup CallsOf(calls, "children") :
        resps[k] \in {"api", "transport"} =>
            /\ k = Len(calls)
            /\ pc = "done"
            /\ result.status = "failed"
            /\ result.value = << >>
            /\ result.error = requestWithToken_error(json)

C7_Witness ==
    /\ Len(ChildrenCalls) = 2
    /\ resps[ChildrenCalls[1]] = "ok"
    /\ resps[ChildrenCalls[2]] = "api"
    /\ result.status = "failed"

\* C8: when the document-creation call returns a non-zero code with a
\* message, createDocument fails with an error carrying that message and no
\* further call is issued.
C8_CreateErrorCarriesMessage ==
    \A k \in CallsOf(calls, "createDoc") :
        (resps[k] = "api" /\ json.msg # "") =>
            /\ result.status = "failed"
            /\ result.error = json.msg
            /\ k = Len(calls)

\* ------------------------------------------------------------ image work
OkUploads(b) ==
    {u \in CallsOf(calls, "upload") : calls[u].at = b /\ resps[u] = "ok"}

\* C9: the patch request of a batch has exactly one entry per upload of the
\* batch that succeeded, binding the block to the token of that upload, and
\* none for a failed image; without a successful upload there is no patch
\* call.
C9_PatchEntries ==
    \A k \in CallsOf(calls, "patch") :
        LET rq == calls[k].arg.requests
            ok == OkUploads(calls[k].at)
        IN  /\ Len(rq) >= 1
            /\ Len(rq) = Cardinality(ok)
            /\ \A u \in ok : \E n \in 1..Len(rq) :
                  /\ rq[n].block_id = calls[u].arg.parent_node
                  /\ rq[n].replace_image = file_token(calls[u])

C9_Witness ==
    \E k \in CallsOf(calls, "patch") :
        /\ Len(calls[k].arg.requests) = 1
        /\ Cardinality({d \in CallsOf(calls, "download") :
                           calls[d].at = calls[k].at}) = 2

\* C10: image failures are isolated.  createDocument never fails once the
\* image work of a batch has started; an image ends without a token only
\* through a failure of its own download, token acquisition or upload; every
\* successful upload is bound by the patch request of its batch, which is
\* attempted whenever there is one; and a publish that returns has created
\* every batch.
C10_ImageFailuresIsolated ==
    /\ result.status = "failed" =>
          /\ req \in {"createDoc", "children"}
          /\ \A d \in CallsOf(calls, "download") : calls[d].at # i
    /\ \A j \in DOMAIN up :
          (up[j].pc = "resolved" /\ up[j].result = Null) =>
              \/ resps[up[j].call] \notin {"ok", "pending"}
              \/ /\ calls[up[j].call].api = "download"
                 /\ refreshToken_missing(config)
    /\ (pc # "uploading" /\ OkUploads(i) # {} /\ up # NoUploads) =>
          req = "patch"
    /\ \A k \in CallsOf(calls, "patch") : \A u \in OkUploads(calls[k].at) :
          \E n \in 1..Len(calls[k].arg.requests) :
              calls[k].arg.requests[n].block_id = calls[u].arg.parent_node
    /\ result.status = "ok" =>
          Len(ChildrenCalls) = (Len(segments) + chunkSize - 1) \div chunkSize

C10_Witness ==
    /\ result.status = "ok"
    /\ Len(ChildrenCalls) = 2
    /\ \E d \in CallsOf(calls, "download") :
          calls[d].at = 0 /\ resps[d] = "error"
    /\ \E k \in CallsOf(calls, "patch") :
          calls[k].at = 0 /\ Len(calls[k].arg.requests) = 1

\* ------------------------------------------------------------ patch call
\* C11: a patch call that fails, with an application error or in transport,
\* is swallowed: it is the only patch call of its batch, createDocument has
\* moved on to the next batch, a failure of createDocument is that of a later
\* block creation, and after the last batch createDocument has returned its
\* completion record.
C11_PatchFailureSwallowed ==
    \A k \in CallsOf(calls, "patch") :
        resps[k] \in {"api", "transport"} =>
            /\ {c \in CallsOf(calls, "patch") : calls[c].at = calls[k].at} = {k}
            /\ i >= calls[k].at + chunkSize
            /\ result.status = "failed" => req = "children"
            /\ calls[k].at + chunkSize >= Len(segments) =>
                  /\ pc = "done"
                  /\ result = Completion(Here)

C11_Witness ==
    /\ pc = "done"
    /\ result.status = "ok"
    /\ \E k \in CallsOf(calls, "patch") :
          /\ resps[k] = "transport"
          /\ calls[k].at = 0
          /\ \E c \in CallsOf(calls, "children") :
                calls[c].at = chunkSize /\ resps[c] = "ok"

\* ---------------------------------------------------------- segmentation
NoImageReference(content) ==
    \A p \in 1..Len(content) : MatchesAt(content, p) = {}

Text(data) == [type |-> "text", data |-> data]

\* C12: a content without image reference is segmented into text segments
\* only, one for each non-empty line and none for an empty line, in the order
\* of the lines.
C12_OneTextPerNonEmptyLine ==
    (pc = "segmented" /\ NoImageReference(info.content)) =>
        LET lines == SelectSeq(SplitLines(info.content),
                               LAMBDA l : l # << >>)
        IN  segments = [k \in 1..Len(lines) |-> Text(lines[k])]

\* C13: "Hello\n![x](http://a/img.png)\nWorld" is segmented into the text
\* Hello, the image http://a/img.png and the text World and nothing else;
\* and no image segment of any content has an empty text segment next to it.
C13_LineBreakNextToImage ==
    pc = "segmented" =>
        /\ info.content = Scenario =>
              segments = << Text(SubSeq(Scenario, 1, 5)),
                            [type |-> "image", data |-> SubSeq(Scenario, 12, 27)],
                            Text(SubSeq(Scenario, 30, 34)) >>
        /\ \A k \in 1..Len(segments) :
              segments[k].type = "image" =>
                 \A n \in {k - 1, k + 1} \cap (1..Len(segments)) :
                    segments[n] # Text(<< >>)

\* The image reference written back for an image segment; the text between
\* the brackets is not kept by the segmenter.
Marker(url) == << "!", "[", ".", ".", "]", "(" >> \o url \o << ")" >>

RECURSIVE Reassemble(_, _)
Reassemble(segs, k) ==
    IF k > Len(segs) THEN << >>
    ELSE (IF segs[k].type = "image" THEN Marker(segs[k].data)
                                    ELSE segs[k].data)
         \o Reassemble(segs, k + 1)

\* The content with the bracket text of every image reference replaced by
\* "..".
RECURSIVE WithoutAlt(_, _)
WithoutAlt(s, from) ==
    LET m == FirstMatch(s, from)
    IN  IF m.start = 0 THEN SubSeq(s, from, Len(s))
        ELSE SubSeq(s, from, m.start - 1)
               \o Marker(SubSeq(s, m.urlFrom, m.end - 1))
               \o WithoutAlt(s, m.end + 1)

\* The content without its line breaks (a line feed and the carriage return
\* right before it).
WithoutLineBreaks(s) ==
    LET keep == SelectSeq([k \in 1..Len(s) |-> k],
                    LAMBDA k : ~(\/ s[k] = "\n"
                                 \/ s[k] = "\r" /\ k < Len(s) /\ s[k + 1] = "\n"))
    IN  [n \in 1..Len(keep) |-> s[keep[n]]]

\* C14: the segments written one after the other, a text segment as its text
\* and an image segment as the reference ![..](url), give back the content
\* without its line breaks: no character of the text and no image URL is
\* lost, doubled or moved.
C14_RoundTrip ==
    pc = "segmented" =>
        Reassemble(segments, 1) = WithoutLineBreaks(WithoutAlt(info.content, 1))

C14_Witness ==
    /\ pc = "segmented"
    /\ Len(segments) >= 4
    /\ \E k \in 2..(Len(segments) - 1) :
          /\ segments[k].type = "image"
          /\ segments[k - 1].type = "text" /\ segments[k - 1].data # << >>
    /\ \E k \in 1..(Len(info.content) - 1) :
          info.content[k] = "\r" /\ info.content[k + 1] = "\n"
    /\ \E k \in 1..Len(segments) : "\r" \in {segments[k].data[n] : n \in 1..Len(segments[k].data)}

\* -------------------------------------------------------- bearer tokens
\* C15: every request to the document service (document creation, block
\* creation, media upload, patch) carries a bearer token without any
\* whitespace, whatever the stored access token contains.
C15_BearerHasNoWhitespace ==
    \A k \in DocumentServiceCalls(calls) :
        \A n \in 1..Len(calls[k].bearer) : calls[k].bearer[n] # " "

\* C16: while the snapshot records no expiry, getAccessToken, at any time,
\* hands out the stored access token as it is, sends nothing to the relay and
\* leaves the snapshot as it was.
C16_NoExpiryNoRefresh ==
    [][ (GetAccessTokenStep /\ config.expiresAt = 0) =>
            /\ CallsOf(calls', "refresh") = CallsOf(calls, "refresh")
            /\ config' = config
            /\ pc = "getToken" => pc' = "haveToken" /\ token' = config.accessToken
            /\ pc = "uploading" =>
                  \A j \in DOMAIN up :
                     up[j].pc = "getToken" /\ up'[j].pc # "getToken" =>
                        /\ up'[j].pc = "awaiting"
                        /\ up'[j].token = config.accessToken ]_vars

C16_Witness ==
    /\ config.expiresAt = 0
    /\ clock > T0 * TicksPerSec
    /\ pc = "uploading"
    /\ CallsOf(calls, "refresh") = {}
    /\ \E j \in DOMAIN up : up[j].pc = "awaiting" /\ up[j].token = config.accessToken

\* ------------------------------------------------------- one document
\* C17: createDocument creates the document at most once, and exactly once if
\* it sends anything to the document service or returns; that call comes
\* before every other call to the document service; every block-creation and
\* patch call is for the document id that call returned; and the completion
\* record holds that id, the URL made of it and the folder id of the caller.
C17_OneDocument ==
    LET cd == CallsOf(calls, "createDoc")
        ds == DocumentServiceCalls(calls)
    IN  /\ Cardinality(cd) <= 1
        /\ (ds # {} \/ result.status = "ok") =>
              /\ Cardinality(cd) = 1
              /\ \A c \in cd : \A k \in ds : c <= k
        /\ \A k \in ds \ cd : \A c \in cd : resps[c] = "ok"
        /\ \A c \in cd :
              calls[c].arg = [folder_token |-> info.repositoryId,
                              title |-> info.title]
        /\ \A k \in CallsOf(calls, "children") \cup CallsOf(calls, "patch") :
              calls[k].arg.doc = DocId /\ documentId = DocId
        /\ result.status = "ok" =>
              result.value =
                 << [ href |-> << "https://feishu.cn/docx/", DocId >>,
                      repositoryId |-> info.repositoryId,
                      documentId |-> DocId ] >>

C17_Witness ==
    /\ result.status = "ok"
    /\ CallsOf(calls, "patch") # {}
    /\ Cardinality(CallsOf(calls, "children")) = 2

\* ------------------------------------------------------- image binding
\* C18: an image is uploaded with the block id the service returned for its
\* own position as parent node, and every entry of a patch call binds a block
\* id to the media token of the successful upload made for that block, in the
\* same batch, in whatever order the uploads completed.
C18_PatchBindsOwnImage ==
    /\ \A u \in CallsOf(calls, "upload") :
          LET b == calls[u].arg.parent_node
          IN  /\ b \in (calls[u].at + 1)..Min(calls[u].at + chunkSize, Len(segments))
              /\ segments[b].type = "image"
              /\ calls[u].arg.file = segments[b].data
    /\ \A k \in CallsOf(calls, "patch") :
          \A n \in 1..Len(calls[k].arg.requests) :
             LET e == calls[k].arg.requests[n]
             IN  \E u \in CallsOf(calls, "upload") :
                    /\ u < k
                    /\ resps[u] = "ok"
                    /\ calls[u].at = calls[k].at
                    /\ calls[u].arg.parent_node = e.block_id
                    /\ e.replace_image = file_token(calls[u])

\* Two uploads of one batch were sent in the reverse order of their blocks
\* and both are in the patch call.
C18_Witness ==
    \E k \in CallsOf(calls, "patch") :
        /\ Len(calls[k].arg.requests) = 2
        /\ \E u1, u2 \in CallsOf(calls, "upload") :
              /\ u1 < u2
              /\ calls[u1].at = calls[k].at /\ calls[u2].at = calls[k].at
              /\ calls[u1].arg.parent_node > calls[u2].arg.parent_node
              /\ calls[u1].arg.file # calls[u2].arg.file

\* C19: a batch has at most one patch call, and when it is issued every
\* download and upload started for the batch has returned: no patch call
\* while an upload of the batch is in flight.
C19_OnePatchAfterUploads ==
    /\ \A k \in CallsOf(calls, "patch") :
          /\ {c \in CallsOf(calls, "patch") : calls[c].at = calls[k].at} = {k}
          /\ \A c \in CallsOf(calls, "download") \cup CallsOf(calls, "upload")
                        \cup CallsOf(calls, "refresh") :
                calls[c].at = calls[k].at => c < k /\ resps[c] # "pending"
    /\ req = "patch" =>
          /\ DOMAIN up = imagePositions
          /\ \A j \in DOMAIN up : up[j].pc = "resolved"

C19_Witness ==
    \E k \in CallsOf(calls, "patch") :
        /\ resps[k] = "pending"
        /\ \E d \in CallsOf(calls, "download") :
              calls[d].at = calls[k].at /\ resps[d] = "notOk"
        /\ \E u \in CallsOf(calls, "upload") :
              calls[u].at = calls[k].at /\ resps[u] = "ok"

\* ------------------------------------------------------------- snapshot
\* C20: the snapshot changes only when a refresh succeeds, and then its
\* access token and refresh token are those of that relay answer, its expiry
\* is the second of the refresh plus expires_in (7200 for none or zero) and
\* the relay URL is kept; a refresh that fails leaves the snapshot as it was;
\* so the snapshot never holds fields of two different answers.
C20_SnapshotReplacedWholesale ==
    [][ /\ config' # config =>
              /\ issued' = issued + 1
              /\ \E k \in CallsOf(calls, "refresh") :
                    resps[k] = "pending" /\ resps'[k] = "ok"
              /\ config'.accessToken = << "r", ToString(issued') >>
              /\ config'.refreshToken = 10 + issued'
              /\ \E e \in ExpiresInValues :
                    config'.expiresAt = (clock \div TicksPerSec)
                        + (IF e = 0 THEN DefaultExpiresIn ELSE e)
              /\ config'.workerUrl = config.workerUrl
              /\ DOMAIN config' = DOMAIN config
        /\ issued' # issued => config' # config
        /\ RefreshFailsStep => config' = config ]_vars

C20_Witness ==
    /\ issued = 2
    /\ config.accessToken = << "r", "2" >>
    /\ config.refreshToken = 12
    /\ \E k \in CallsOf(calls, "refresh") : resps[k] = "errorPayload"

\* ------------------------------------------------- tokens after a refresh
\* The document-service calls issued in this step.
IssuedNow == DocumentServiceCalls(calls') \ DocumentServiceCalls(calls)

\* C21: once a refresh has succeeded, every request sent to the document
\* service carries the access token of the snapshot as it is when the request
\* is sent, never the token of a snapshot that has been replaced.
C21_RequestsCarryCurrentToken ==
    [][ issued' >= 1 =>
            \A k \in IssuedNow : calls'[k].bearer = config'.accessToken ]_vars

\* Two refreshes have succeeded, an upload went out with the token of the
\* first and a later request with the token of the second.
C21_Witness ==
    /\ issued = 2
    /\ config.accessToken = << "r", "2" >>
    /\ \E u \in CallsOf(calls, "upload") :
          /\ calls[u].bearer = << "r", "1" >>
          /\ \E k \in DocumentServiceCalls(calls) :
                k > u /\ calls[k].bearer = << "r", "2" >>

\* C22: at most one refresh call is in flight at any time, and no refresh
\* token is sent to the relay twice, also when several uploads of one batch
\* ask for a token while the snapshot is within 300 seconds of its expiry.
C22_SingleRefreshInFlight ==
    LET rc == CallsOf(calls, "refresh")
    IN  /\ Cardinality({k \in rc : resps[k] = "pending"}) <= 1
        /\ \A k1, k2 \in rc :
              calls[k1].arg.refresh_token = calls[k2].arg.refresh_token
                 => k1 = k2

\* --------------------------------------------------------- batch boundary
\* The downloads and uploads in flight.
TransfersInFlight ==
    {k \in CallsOf(calls, "download") \cup CallsOf(calls, "upload") :
        resps[k] = "pending"}

\* C23: when the block-creation call of a batch is issued, every call of the
\* batches before it (downloads, uploads, refreshes, the patch call) has
\* returned or failed; so the transfers in flight all belong to the batch
\* being worked on and are no more than its image segments, at most 50.
C23_ImageWorkStaysInBatch ==
    /\ \A k \in CallsOf(calls, "children") :
          \A c \in 1..Len(calls) :
             calls[c].at < calls[k].at => c < k /\ resps[c] # "pending"
    /\ \A c \in TransfersInFlight : calls[c].at = i /\ pc = "uploading"
    /\ Cardinality(TransfersInFlight)
          <= Cardinality({n \in 1..Len(segments) :
                             /\ i < n /\ n <= i + chunkSize
                             /\ segments[n].type = "image"})
    /\ Cardinality(TransfersInFlight) <= chunkSize

\* The second batch has an upload in flight after the first batch had its
\* image uploaded and its patch call answered.
C23_Witness ==
    /\ i = chunkSize
    /\ \E p \in CallsOf(calls, "patch") : calls[p].at = 0 /\ resps[p] = "ok"
    /\ \E u \in TransfersInFlight : calls[u].api = "upload"

\* ------------------------------------------------------------ termination
\* C24: when every network call is answered, createDocument ends: it returns
\* its completion record or fails with an error, for every content and every
\* outcome of every call, an upload failing next to another included.
C24_AlwaysCompletes ==
    <>(pc = "done" /\ result.status \in {"ok", "failed"})

\* createDocument has returned after a batch in which one upload failed and
\* another succeeded.
C24_Witness ==
    /\ pc = "done"
    /\ result.status = "ok"
    /\ \E u1, u2 \in CallsOf(calls, "upload") :
          /\ calls[u1].at = calls[u2].at
          /\ resps[u1] = "transport"
          /\ resps[u2] = "ok"
====
